---------------------------- MODULE Spec2Model ----------------------------
(***************************************************************************)
(* Subtitle pipeline of eng_subtitles_for_indic_yt_videos: the audio       *)
(* segmenters, the transcription client and collector, the timestamp       *)
(* formatter and the SRT assembler (src/utils.py, src/main.py).            *)
(***************************************************************************)
EXTENDS Integers, Sequences, FiniteSets, TLC

VARIABLES
    pc,                  \* the function that runs and its position
    \* ---- split_audio_with_sliding_window
    total_duration,      \* len(audio), ms
    chunk_duration_ms,
    context_duration_ms,
    num_chunks,
    i,                   \* loop index of the trange loop
    final_chunks,        \* sequence of [subtitle_start, subtitle_end]
    exported,            \* exported audio windows [chunk_start, chunk_end]
    \* ---- process_chunks_and_collect_transcripts / send_to_sarvam_api
    chunks,              \* input: sequence of [mime, start_ms, end_ms]
    transcripts,         \* the list the collector builds
    calls,               \* one record per call of send_to_sarvam_api
    posts,               \* number of requests.post calls issued so far
    \* ---- create_srt_file (its input is the list `transcripts`)
    max_chars,
    subtitle_number,
    srt_file,            \* the blocks written, one per f.write, as characters
    \* ---- split_audio_on_silence
    natural_chunks,      \* durations of the chunks found between silences, ms
    keep_silence,
    max_chunk_duration,
    current_time,        \* the running clock
    silence_chunks,      \* the segments emitted
    \* ---- the drivers (main.py, main() of app.py)
    driver,              \* the script that runs: "main", "app" or "none"
    youtube_link,        \* the link that was entered, as characters
    source,              \* what yt_dlp finds behind the link
    downloaded_audio,    \* the value download_youtube_audio returned
    stages,              \* the stages of the pipeline entered so far
    halt                 \* where and why the run was halted

wvars == <<total_duration, chunk_duration_ms, context_duration_ms, num_chunks,
           i, final_chunks, exported>>

cvars == <<chunks, transcripts, calls, posts>>
svars == <<max_chars, subtitle_number, srt_file>>

zvars == <<natural_chunks, keep_silence, max_chunk_duration, current_time,
           silence_chunks>>

dvars == <<driver, youtube_link, source, downloaded_audio, stages, halt>>

vars == <<pc, wvars, cvars, svars, zvars, dvars>>

Min(a, b) == IF a <= b THEN a ELSE b
Max(a, b) == IF a >= b THEN a ELSE b

(***************************************************************************)
(* Bounds of the model                                                     *)
(***************************************************************************)
MaxTotal == 12      \* source durations 0..MaxTotal
MaxChunk == 4       \* chunk sizes 1..MaxChunk
MaxContext == 3     \* context durations 0..MaxContext
MaxSegments == 3    \* segments handed to the collector 0..MaxSegments
MaxTextLen == 5     \* characters of a transcript text 0..MaxTextLen
MaxChars == 4       \* line widths 1..MaxChars
MaxEntries == 3     \* entries handed to the assembler 0..MaxEntries
MaxTimeIndex == 70  \* timestamps 0, 59999, ..., MaxTimeIndex * 59999 ms
MaxNatural == 3     \* natural chunks between silences 0..MaxNatural
MaxDuration == 7    \* duration of a natural chunk 1..MaxDuration
MaxLimit == 3       \* max_chunk_duration 1..MaxLimit
MaxKeep == 2        \* keep_silence 0..MaxKeep

(***************************************************************************)
(* States of the functions that are not running                            *)
(***************************************************************************)
CollectIdle ==
    /\ chunks = <<>>
    /\ calls = <<>>
    /\ posts = 0

DefaultMaxChars == 42

SrtIdle ==
    /\ max_chars = DefaultMaxChars
    /\ subtitle_number = 1
    /\ srt_file = <<>>

KeepSilenceMain == 500

SilenceIdle ==
    /\ natural_chunks = <<>>
    /\ keep_silence = KeepSilenceMain
    /\ max_chunk_duration = 1
    /\ current_time = 0
    /\ silence_chunks = <<>>

\* Python's None where a path is expected
NonePath == [is_none |-> TRUE, path |-> <<>>]

NoSource == [ok |-> FALSE, title |-> <<>>, duration |-> 0]

NoHalt == [at |-> "none", cause |-> "none"]

DriverIdle ==
    /\ driver = "none"
    /\ youtube_link = <<>>
    /\ source = NoSource
    /\ downloaded_audio = NonePath
    /\ stages = <<>>
    /\ halt = NoHalt

(***************************************************************************)
(* split_audio_with_sliding_window (utils.py 94-148)                       *)
(***************************************************************************)
DefaultChunkDurationMs == 5000
DefaultContextDurationMs == 500

\* math.ceil(total_duration / chunk_duration_ms), both non-negative integers
NumChunks(T, C) == IF T % C = 0 THEN T \div C ELSE (T \div C) + 1

SubtitleStart(k, C) == k * C
\* faulty variant: the end is not clamped to the end of the audio
SubtitleEndUnclamped(k, C, T) == (k + 1) * C
SubtitleEnd(k, C, T) == Min((k + 1) * C, T)
\* faulty variant: the start of the window is not clamped to 0
ChunkStartUnclamped(ss, X) == ss - X
ChunkStart(ss, X) == Max(ss - X, 0)
ChunkEnd(se, X, T) == Min(se + X, T)

\* the durations, chunk sizes and context sizes of the runs that are modelled:
\* the small ranges, the defaults of the signature and the 16 s scenario
WindowInputs ==
    ((0..MaxTotal) \X (1..MaxChunk) \X (0..MaxContext))
    \cup {<<16000, 7000, 2000>>,
          <<12000, DefaultChunkDurationMs, DefaultContextDurationMs>>}

WindowIdle ==
    /\ total_duration = 0
    /\ chunk_duration_ms = DefaultChunkDurationMs
    /\ context_duration_ms = DefaultContextDurationMs
    /\ num_chunks = 0
    /\ i = 0
    /\ final_chunks = <<>>
    /\ exported = <<>>

InitWindow ==
    /\ DriverIdle
    /\ pc = "window_start"
    /\ \E in \in WindowInputs :
          /\ total_duration = in[1]
          /\ chunk_duration_ms = in[2]
          /\ context_duration_ms = in[3]
    /\ num_chunks = 0
    /\ i = 0
    /\ final_chunks = <<>>
    /\ exported = <<>>
    /\ CollectIdle
    /\ transcripts = <<>>
    /\ SrtIdle
    /\ SilenceIdle

\* lines 111-121: load the audio, compute num_chunks, start with no chunks
WindowBegin ==
    /\ UNCHANGED dvars
    /\ pc = "window_start"
    /\ num_chunks' = NumChunks(total_duration, chunk_duration_ms)
    /\ i' = 0
    /\ final_chunks' = <<>>
    /\ exported' = <<>>
    /\ pc' = "window_loop"
    /\ UNCHANGED <<total_duration, chunk_duration_ms, context_duration_ms>>
    /\ UNCHANGED <<cvars, svars, zvars>>

\* lines 123-143: one iteration of the loop
WindowIter ==
    /\ UNCHANGED dvars
    /\ pc = "window_loop"
    /\ i < num_chunks
    /\ LET subtitle_start == SubtitleStart(i, chunk_duration_ms)
           subtitle_end == SubtitleEnd(i, chunk_duration_ms, total_duration)
           chunk_start == ChunkStart(subtitle_start, context_duration_ms)
           chunk_end == ChunkEnd(subtitle_end, context_duration_ms, total_duration)
       IN /\ exported' = Append(exported, [chunk_start |-> chunk_start,
                                           chunk_end |-> chunk_end])
          /\ final_chunks' = Append(final_chunks,
                                    [subtitle_start |-> subtitle_start,
                                     subtitle_end |-> subtitle_end])
    /\ i' = i + 1
    /\ UNCHANGED <<pc, total_duration, chunk_duration_ms, context_duration_ms,
                   num_chunks>>
    /\ UNCHANGED <<cvars, svars, zvars>>

\* line 148
WindowReturn ==
    /\ UNCHANGED dvars
    /\ pc = "window_loop"
    /\ i >= num_chunks
    /\ pc' = "window_done"
    /\ UNCHANGED <<wvars, cvars, svars, zvars>>

NextWindow == WindowBegin \/ WindowIter \/ WindowReturn

SpecWindow == InitWindow /\ [][NextWindow]_vars

(***************************************************************************)
(* split_audio_on_silence (imported and called by main.py; its body is not *)
(* among the sources, so it follows section 4.2 of the specification).     *)
(* Times are exact: a time is a numerator over the denominator `den`.      *)
(***************************************************************************)
\* k = floor(d / maxChunkDurationMs) + 1
NumSubChunks(d, maxd) == (d \div maxd) + 1

\* the segments of one natural chunk of duration d that starts at `clock`
SegmentsOf(c, d, clock, maxd) ==
    IF d <= maxd
    THEN << [chunk |-> c, start_n |-> clock, end_n |-> clock + d, den |-> 1] >>
    ELSE LET k == NumSubChunks(d, maxd)
         IN [j \in 1..k |-> [chunk |-> c,
                             start_n |-> clock * k + (j - 1) * d,
                             end_n |-> clock * k + j * d,
                             den |-> k]]

\* faulty variant: the silence is added once per sub-chunk
AdvancePerSubChunk(clock, d, keep, maxd) ==
    IF d <= maxd THEN clock + d + keep
    ELSE clock + d + NumSubChunks(d, maxd) * keep
\* the advance of the clock after a natural chunk, split or not
Advance(clock, d, keep, maxd) == clock + d + keep

SilenceInputs ==
    {[chunks |-> ds, keep |-> ks, maxd |-> m] :
        ds \in UNION {[1..n -> 1..MaxDuration] : n \in 0..MaxNatural},
        ks \in 0..MaxKeep, m \in 1..MaxLimit}
    \cup {[chunks |-> <<1200, 4100, 2000>>, keep |-> KeepSilenceMain, maxd |-> 2000]}

InitSilence ==
    /\ DriverIdle
    /\ pc = "silence_loop"
    /\ WindowIdle
    /\ CollectIdle
    /\ transcripts = <<>>
    /\ SrtIdle
    /\ \E in \in SilenceInputs :
          /\ natural_chunks = in.chunks
          /\ keep_silence = in.keep
          /\ max_chunk_duration = in.maxd
    /\ current_time = 0
    /\ silence_chunks = <<>>

\* the number of natural chunks already handled
Handled == IF silence_chunks = <<>> THEN 0
           ELSE silence_chunks[Len(silence_chunks)].chunk

\* one natural chunk: its segments, then the clock
SilenceIter ==
    /\ UNCHANGED dvars
    /\ pc = "silence_loop"
    /\ Handled < Len(natural_chunks)
    /\ LET c == Handled + 1
           d == natural_chunks[c]
       IN /\ silence_chunks' = silence_chunks
                \o SegmentsOf(c, d, current_time, max_chunk_duration)
          /\ current_time' = Advance(current_time, d, keep_silence,
                                     max_chunk_duration)
    /\ UNCHANGED <<pc, natural_chunks, keep_silence, max_chunk_duration,
                   wvars, cvars, svars>>

SilenceReturn ==
    /\ UNCHANGED dvars
    /\ pc = "silence_loop"
    /\ Handled = Len(natural_chunks)
    /\ pc' = "silence_done"
    /\ UNCHANGED <<wvars, cvars, svars, zvars>>

NextSilence == SilenceIter \/ SilenceReturn

SpecSilence == InitSilence /\ [][NextSilence]_vars

(***************************************************************************)
(* send_to_sarvam_api (utils.py 151-199)                                   *)
(***************************************************************************)
\* line 172: the MIME types the client sends
AllowedMimeTypes == {"audio/mpeg", "audio/wave", "audio/wav", "audio/x-wav"}
\* what mimetypes.guess_type may answer for a segment path ("None": no guess)
MimeTypes == {"audio/mpeg", "audio/x-wav", "video/mp4", "None"}

\* a JSON object is a function from its keys to strings
EmptyDict == [k \in {} |-> ""]
\* texts are sequences of characters
Texts == {<<"o", "k">>, <<>>}
Bodies == {EmptyDict} \cup {[language_code |-> "hi-IN"]}
          \cup {[transcript |-> t] : t \in Texts}
          \cup {[transcript |-> t, language_code |-> "hi-IN"] : t \in Texts}

\* what the network and the server do with one POST
NetOutcomes ==
    {[kind |-> k, body |-> EmptyDict] :
        k \in {"transport_error", "http_error", "invalid_json"}}
    \cup {[kind |-> "ok", body |-> b] : b \in Bodies}

\* no request was made: the call returned or raised before the POST
NotSent == [kind |-> "not_sent", body |-> EmptyDict]

NoneResponse == [is_none |-> TRUE, body |-> EmptyDict]

\* lines 188-199: the POST and what is made of its outcome
\* (requests.post raising, raise_for_status raising, response.json raising:
\* all caught, the function falls through to "return None")
\* faulty variant: a failed request is sent a second time
PostOnceRetrying(net) ==
    IF net.kind = "ok"
    THEN [raised |-> FALSE, posts |-> 1,
          response |-> [is_none |-> FALSE, body |-> net.body]]
    ELSE [raised |-> FALSE, posts |-> 2, response |-> NoneResponse]
PostOnce(net) ==
    IF net.kind = "ok"
    THEN [raised |-> FALSE, posts |-> 1,
          response |-> [is_none |-> FALSE, body |-> net.body]]
    ELSE [raised |-> FALSE, posts |-> 1, response |-> NoneResponse]

\* the whole function: the MIME check (171-174), open() outside of the try
\* block (176), the POST (188-197)
SendToSarvamApi(mime, readable, net) ==
    IF mime \notin AllowedMimeTypes
    THEN [raised |-> FALSE, posts |-> 0, response |-> NoneResponse]
    ELSE IF ~readable
         THEN [raised |-> TRUE, posts |-> 0, response |-> NoneResponse]
         ELSE PostOnce(net)

(***************************************************************************)
(* process_chunks_and_collect_transcripts (utils.py 201-229)               *)
(***************************************************************************)
Placeholder ==
    <<"[", "U", "n", "i", "n", "t", "e", "l", "l", "i", "g", "i", "b", "l", "e", "]">>

\* line 216: `response and 'transcript' in response`
HasTranscript(response) ==
    /\ ~response.is_none
    /\ DOMAIN response.body # {}
    /\ "transcript" \in DOMAIN response.body

\* lines 216-228: the entry appended for a segment
EntryText(response) ==
    IF HasTranscript(response) THEN response.body["transcript"] ELSE Placeholder

\* the segments handed to the collector: consecutive nominal intervals
SegmentTimes(k) == [start_ms |-> (k - 1) * DefaultChunkDurationMs,
                    end_ms |-> k * DefaultChunkDurationMs]

InitCollect ==
    /\ DriverIdle
    /\ pc = "collect_loop"
    /\ WindowIdle
    /\ SrtIdle
    /\ SilenceIdle
    /\ \E n \in 0..MaxSegments :
          \E mimes \in [1..n -> MimeTypes] :
              chunks = [k \in 1..n |-> [mime |-> mimes[k],
                                        start_ms |-> SegmentTimes(k).start_ms,
                                        end_ms |-> SegmentTimes(k).end_ms]]
    /\ transcripts = <<>>
    /\ calls = <<>>
    /\ posts = 0

\* lines 213-228: one iteration, the call of send_to_sarvam_api included
CollectIter ==
    /\ UNCHANGED dvars
    /\ pc = "collect_loop"
    /\ Len(calls) < Len(chunks)
    /\ \E readable \in BOOLEAN, net \in NetOutcomes \cup {NotSent} :
          LET chunk == chunks[Len(calls) + 1]
              opens == chunk.mime \in AllowedMimeTypes
              r == SendToSarvamApi(chunk.mime, readable, net)
          IN \* the file is opened only after the MIME check, the network
             \* is used only once the file is open
             /\ ~opens => readable
             /\ (net = NotSent) <=> ~(opens /\ readable)
             /\ calls' = Append(calls, [mime |-> chunk.mime,
                                        readable |-> readable,
                                        net |-> net,
                                        posts |-> r.posts,
                                        raised |-> r.raised,
                                        response |-> r.response])
             /\ posts' = posts + r.posts
             /\ IF r.raised
                THEN \* the exception of open() leaves the collector
                     /\ pc' = "collect_raised"
                     /\ UNCHANGED transcripts
                ELSE /\ transcripts' = Append(transcripts,
                                              [start_time |-> chunk.start_ms,
                                               end_time |-> chunk.end_ms,
                                               transcript |-> EntryText(r.response)])
                     /\ UNCHANGED pc
    /\ UNCHANGED <<chunks, wvars, svars, zvars>>

\* line 229
CollectReturn ==
    /\ UNCHANGED dvars
    /\ pc = "collect_loop"
    /\ Len(calls) = Len(chunks)
    /\ pc' = "collect_done"
    /\ UNCHANGED <<wvars, cvars, svars, zvars>>

NextCollect == CollectIter \/ CollectReturn

SpecCollect == InitCollect /\ [][NextCollect]_vars

(***************************************************************************)
(* format_timestamp (utils.py 231-244)                                     *)
(***************************************************************************)
Digit == <<"0", "1", "2", "3", "4", "5", "6", "7", "8", "9">>

\* str(n) of a non-negative integer, as characters
RECURSIVE IntToChars(_)
IntToChars(n) ==
    IF n < 10 THEN <<Digit[n + 1]>>
    ELSE IntToChars(n \div 10) \o <<Digit[(n % 10) + 1]>>

\* the format specification {n:0w}: zero-padded to at least w characters
RECURSIVE PadLeft(_, _)
PadLeft(cs, w) == IF Len(cs) >= w THEN cs ELSE PadLeft(<<"0">> \o cs, w)
ZeroPad(n, w) == PadLeft(IntToChars(n), w)

\* faulty variant: the minutes are not reduced modulo 60
FormatTimestampNoMinuteCarry(ms) ==
    LET seconds0 == ms \div 1000
        milliseconds == ms % 1000
        minutes == seconds0 \div 60
        seconds == seconds0 % 60
        hours == minutes \div 60
    IN ZeroPad(hours, 2) \o <<":">> \o ZeroPad(minutes, 2) \o <<":">>
       \o ZeroPad(seconds, 2) \o <<",">> \o ZeroPad(milliseconds, 3)
FormatTimestamp(ms) ==
    LET seconds0 == ms \div 1000          \* divmod(ms, 1000)
        milliseconds == ms % 1000
        minutes0 == seconds0 \div 60      \* divmod(seconds, 60)
        seconds == seconds0 % 60
        hours == minutes0 \div 60         \* divmod(minutes, 60)
        minutes == minutes0 % 60
    IN ZeroPad(hours, 2) \o <<":">> \o ZeroPad(minutes, 2) \o <<":">>
       \o ZeroPad(seconds, 2) \o <<",">> \o ZeroPad(milliseconds, 3)

(***************************************************************************)
(* create_srt_file (utils.py 246-286)                                      *)
(***************************************************************************)
\* the characters of the modelled texts; Python's whitespace among them
Alphabet == {"a", "b", " ", "\n"}
Whitespace == {" ", "\n"}

\* str.replace(old, new) for single characters
Replace(text, old, new) ==
    [k \in 1..Len(text) |-> IF text[k] = old THEN new ELSE text[k]]

\* the j-th smallest element of a set of numbers
Nth(S, j) == CHOOSE p \in S : Cardinality({q \in S : q < p}) = j - 1

\* str.strip(): from the first to the last character that is not whitespace
Strip(text) ==
    LET solid == {p \in 1..Len(text) : text[p] \notin Whitespace}
    IN IF solid = {} THEN <<>>
       ELSE SubSeq(text, Nth(solid, 1), Nth(solid, Cardinality(solid)))

\* str.split(): the maximal runs of non-whitespace characters
Split(text) ==
    LET n == Len(text)
        starts == {p \in 1..n : /\ text[p] \notin Whitespace
                                /\ (p = 1 \/ text[p - 1] \in Whitespace)}
        ends == {p \in 1..n : /\ text[p] \notin Whitespace
                              /\ (p = n \/ text[p + 1] \in Whitespace)}
    IN [j \in 1..Cardinality(starts) |-> SubSeq(text, Nth(starts, j), Nth(ends, j))]

\* line 263
Normalize(transcript) == Strip(Replace(transcript, "\n", " "))

\* line 270: the word still fits on the current line
\* faulty variant: the separating space is not counted
FitsNoSeparator(current_line, word, maxc) ==
    Len(current_line) + Len(word) <= maxc
Fits(current_line, word, maxc) ==
    Len(current_line) + Len(word) + 1 <= maxc

\* lines 266-278: the loop over the words and the last line
RECURSIVE WrapFrom(_, _, _, _)
WrapFrom(words, lines, current_line, maxc) ==
    IF words = <<>>
    THEN IF current_line # <<>> THEN Append(lines, current_line) ELSE lines
    ELSE LET word == Head(words)
         IN IF Fits(current_line, word, maxc)
            THEN WrapFrom(Tail(words), lines,
                          (IF current_line # <<>>
                           THEN current_line \o <<" ">> ELSE current_line) \o word,
                          maxc)
            ELSE WrapFrom(Tail(words), Append(lines, current_line), word, maxc)
WrapLines(text, maxc) == WrapFrom(Split(text), <<>>, <<>>, maxc)

\* sep.join(lines)
RECURSIVE Join(_, _)
Join(lines, sep) ==
    IF lines = <<>> THEN <<>>
    ELSE IF Len(lines) = 1 THEN lines[1]
    ELSE lines[1] \o sep \o Join(Tail(lines), sep)

Arrow == <<" ", "-", "-", ">", " ">>

\* lines 261-284: the block written for one entry
CueBlock(number, entry, maxc) ==
    LET start == FormatTimestamp(entry.start_time)
        end == FormatTimestamp(entry.end_time)
        text == Normalize(entry.transcript)
        formatted_text == Join(WrapLines(text, maxc), <<"\n">>)
    IN IntToChars(number) \o <<"\n">> \o start \o Arrow \o end \o <<"\n">>
       \o formatted_text \o <<"\n", "\n">>

\* faulty variant: the counter is not incremented
NextNumberStuck(number) == number
\* line 285
NextNumber(number) == number + 1

\* the inputs of the modelled runs
TextsUpTo(n) == UNION {[1..k -> Alphabet] : k \in 0..n}

Repeat(c, n) == [k \in 1..n |-> c]

\* texts around the width of 42 that both drivers pass
LongTexts ==
    LET W == DefaultMaxChars
    IN {Repeat("a", W - 1), Repeat("a", W), Repeat("a", W + 1),
        Repeat("a", 20) \o <<" ">> \o Repeat("b", W - 21),
        Repeat("a", 20) \o <<" ">> \o Repeat("b", W - 20),
        Placeholder}

\* texts with a line that is filled exactly and a word longer than the width
MediumTexts ==
    {<<"a", " ", "b", "\n", "b", "b", "b", "b", "b", " ", "a">>,
     <<" ", "a", "a", " ", " ", "b", "\n", "\n", "a", "b", "a", " ">>}

TimeSamples ==
    {k * 59999 : k \in 0..MaxTimeIndex}
    \cup {999, 1000, 61234, 3599999, 3600000, 359994999, 359999999, 360000000}

ShortTexts == {<<>>, <<"a">>, <<"a", " ", "b">>}
TimePairs == {<<0, 5000>>, <<5000, 61234>>, <<3600000, 3605000>>}

SrtInputs ==
    \* one entry, every short text, every small width
    {[maxc |-> m, entries |-> <<[start_time |-> 0, end_time |-> 5000,
                                 transcript |-> t]>>] :
        m \in 1..MaxChars, t \in TextsUpTo(MaxTextLen) \cup MediumTexts}
    \cup
    \* one entry, the width of the drivers
    {[maxc |-> DefaultMaxChars,
      entries |-> <<[start_time |-> 0, end_time |-> 5000, transcript |-> t]>>] :
        t \in LongTexts}
    \cup
    \* one entry, many timestamps
    {[maxc |-> DefaultMaxChars,
      entries |-> <<[start_time |-> ms, end_time |-> ms + 5000,
                     transcript |-> <<"a">>]>>] :
        ms \in TimeSamples}
    \cup
    \* several entries in any order
    UNION {{[maxc |-> DefaultMaxChars,
             entries |-> [k \in 1..n |-> [start_time |-> tp[k][1],
                                          end_time |-> tp[k][2],
                                          transcript |-> tx[k]]]] :
              tp \in [1..n -> TimePairs], tx \in [1..n -> ShortTexts]} :
           n \in 0..MaxEntries}

\* lines 258-259: the file is open, nothing is written yet
InitSrt ==
    /\ DriverIdle
    /\ pc = "srt_loop"
    /\ WindowIdle
    /\ CollectIdle
    /\ SilenceIdle
    /\ \E in \in SrtInputs :
          /\ transcripts = in.entries
          /\ max_chars = in.maxc
    /\ subtitle_number = 1
    /\ srt_file = <<>>

\* lines 260-285: one iteration
SrtWriteCue ==
    /\ UNCHANGED dvars
    /\ pc = "srt_loop"
    /\ Len(srt_file) < Len(transcripts)
    /\ LET entry == transcripts[Len(srt_file) + 1]
       IN srt_file' = Append(srt_file, CueBlock(subtitle_number, entry, max_chars))
    /\ subtitle_number' = NextNumber(subtitle_number)
    /\ UNCHANGED <<pc, max_chars, wvars, cvars, zvars>>

\* line 286: the loop has ended and the file is closed
SrtClose ==
    /\ UNCHANGED dvars
    /\ pc = "srt_loop"
    /\ Len(srt_file) = Len(transcripts)
    /\ pc' = "srt_done"
    /\ UNCHANGED <<wvars, cvars, svars, zvars>>

NextSrt == SrtWriteCue \/ SrtClose

SpecSrt == InitSrt /\ [][NextSrt]_vars

(***************************************************************************)
(* What the drivers download (utils.py 11-92)                              *)
(***************************************************************************)
MaxTitleLen == 2     \* titles of 1..MaxTitleLen characters
MaxDriverNatural == 2  \* natural chunks of the audio of a driver run

\* line 82 of app.py: the ceiling on the duration, in seconds
DurationLimit == 1200

Titles == {[k \in 1..n |-> "a"] : n \in 1..MaxTitleLen}

\* what yt_dlp finds behind the link: nothing it can download, or a video
\* with a title and a duration in seconds
Sources ==
    {NoSource}
    \cup {[ok |-> TRUE, title |-> t, duration |-> d] :
             t \in Titles,
             d \in {DurationLimit - 1, DurationLimit, DurationLimit + 1}}

VideoDir == <<"v", "i", "d", "e", "o", "_", "f", "i", "l", "e", "s">>
AudioDir == <<"a", "u", "d", "i", "o", "_", "f", "i", "l", "e", "s">>
Mp4 == <<".", "m", "p", "4">>
Mp3 == <<".", "m", "p", "3">>

\* os.path.join(output_path, '%(title)s.%(ext)s') with the title filled in
OutTmpl(dir, title, ext) == dir \o <<"/">> \o title \o ext

\* utils.py 11-40: the path of the video, or None when anything was raised;
\* the duration of the video is not part of the value returned
DownloadYoutubeVideo(src) ==
    IF src.ok
    THEN [is_none |-> FALSE, path |-> OutTmpl(VideoDir, src.title, Mp4)]
    ELSE NonePath

\* utils.py 44-88: the path of the audio, None on a DownloadError; any other
\* exception (os.makedirs at line 57, the post-processor) leaves the function
DownloadYoutubeAudio(src, other_error) ==
    IF other_error
    THEN [raised |-> TRUE, value |-> NonePath]
    ELSE IF src.ok
         THEN [raised |-> FALSE,
               value |-> [is_none |-> FALSE,
                          path |-> OutTmpl(AudioDir, src.title, Mp3)]]
         ELSE [raised |-> FALSE, value |-> NonePath]

\* `if x:` for a path or None
Truthy(value) == ~value.is_none /\ value.path # <<>>

\* the run ends at stage `at` for the reason `cause`
Halted(at, cause) ==
    /\ pc' = "halted"
    /\ halt' = [at |-> at, cause |-> cause]

(***************************************************************************)
(* main.py: the script, from the prompt for the language to the SRT file.  *)
(* Between the steps of the script the functions above run their own      *)
(* steps.                                                                  *)
(***************************************************************************)
\* the default of max_chunk_duration in the call of lines 80-86
MainMaxChunkDuration == 2000

\* the natural chunks that the audio of a run falls into
DriverNaturalChunks ==
    {SubSeq(<<1200, 4200, 1200, 4200>>, 1, n) : n \in 0..MaxDriverNatural}

\* the segments of split_audio_on_silence as the collector reads them; the
\* sub-chunks of the modelled audio have whole durations
ChunksOfSilence(segs) ==
    [k \in 1..Len(segs) |-> [mime |-> "audio/mpeg",
                             start_ms |-> segs[k].start_n \div segs[k].den,
                             end_ms |-> segs[k].end_n \div segs[k].den]]

InitMain ==
    /\ pc = "main_prompt"
    /\ driver = "main"
    /\ youtube_link \in {<<>>, <<"u">>}
    /\ source \in Sources
    /\ (youtube_link = <<>> => source = NoSource)
    /\ downloaded_audio = NonePath
    /\ stages = <<>>
    /\ halt = NoHalt
    /\ WindowIdle
    /\ CollectIdle
    /\ transcripts = <<>>
    /\ SrtIdle
    /\ SilenceIdle

\* line 52: int(input(...)) raises ValueError when no number is entered
MainPrompt ==
    /\ pc = "main_prompt"
    /\ driver = "main"
    /\ \E is_number \in BOOLEAN :
          IF is_number
          THEN pc' = "main_download" /\ UNCHANGED halt
          ELSE Halted("prompt", "ValueError")
    /\ UNCHANGED <<driver, youtube_link, source, downloaded_audio, stages>>
    /\ UNCHANGED <<wvars, cvars, svars, zvars>>

\* lines 69-73
MainDownload ==
    /\ pc = "main_download"
    /\ driver = "main"
    /\ stages' = Append(stages, "acquire")
    /\ \E other_error \in BOOLEAN :
          LET r == DownloadYoutubeAudio(source, other_error)
          IN IF r.raised
             THEN /\ Halted("acquire", "exception of download_youtube_audio")
                  /\ UNCHANGED downloaded_audio
             ELSE /\ downloaded_audio' = r.value
                  /\ IF Truthy(r.value)
                     THEN pc' = "main_split" /\ UNCHANGED halt
                     ELSE Halted("acquire", "Failed to download audio file")
    /\ UNCHANGED <<driver, youtube_link, source>>
    /\ UNCHANGED <<wvars, cvars, svars, zvars>>

\* lines 78-90: the call of split_audio_on_silence; the audio is decoded and
\* cut at its silences, or that raises
MainSplit ==
    /\ pc = "main_split"
    /\ driver = "main"
    /\ IF Truthy(downloaded_audio)
       THEN /\ stages' = Append(stages, "segment")
            /\ \/ /\ \E nat \in DriverNaturalChunks : natural_chunks' = nat
                  /\ keep_silence' = KeepSilenceMain
                  /\ max_chunk_duration' = MainMaxChunkDuration
                  /\ current_time' = 0
                  /\ silence_chunks' = <<>>
                  /\ pc' = "silence_loop"
                  /\ UNCHANGED halt
               \/ /\ Halted("segment", "Failed to split audio into chunks")
                  /\ UNCHANGED zvars
       ELSE /\ Halted("segment", "Download audio file not found")
            /\ UNCHANGED <<stages, zvars>>
    /\ UNCHANGED <<driver, youtube_link, source, downloaded_audio>>
    /\ UNCHANGED <<wvars, cvars, svars>>

\* lines 87-88: the export of a segment raises while the segmenter runs
MainSplitRaised ==
    /\ pc = "silence_loop"
    /\ driver = "main"
    /\ Halted("segment", "Failed to split audio into chunks")
    /\ UNCHANGED <<driver, youtube_link, source, downloaded_audio, stages>>
    /\ UNCHANGED <<wvars, cvars, svars, zvars>>

\* lines 94-95: the call of process_chunks_and_collect_transcripts
MainCollect ==
    /\ pc = "silence_done"
    /\ driver = "main"
    /\ stages' = Append(stages, "collect")
    /\ chunks' = ChunksOfSilence(silence_chunks)
    /\ transcripts' = <<>>
    /\ calls' = <<>>
    /\ posts' = 0
    /\ pc' = "collect_loop"
    /\ UNCHANGED <<driver, youtube_link, source, downloaded_audio, halt>>
    /\ UNCHANGED <<wvars, svars, zvars>>

\* lines 96-97: an exception left the collector
MainCollectRaised ==
    /\ pc = "collect_raised"
    /\ driver = "main"
    /\ Halted("collect", "Failed to collect transcripts")
    /\ UNCHANGED <<driver, youtube_link, source, downloaded_audio, stages>>
    /\ UNCHANGED <<wvars, cvars, svars, zvars>>

\* lines 105-111: create_srt_file opens the file (utils.py 258), or that
\* raises; an empty list of transcripts is an error of its own
MainAssemble ==
    /\ pc = "collect_done"
    /\ driver = "main"
    /\ IF transcripts # <<>>
       THEN /\ stages' = Append(stages, "assemble")
            /\ \/ /\ max_chars' = DefaultMaxChars
                  /\ subtitle_number' = 1
                  /\ srt_file' = <<>>
                  /\ pc' = "srt_loop"
                  /\ UNCHANGED halt
               \/ /\ Halted("assemble", "Failed to create srt file")
                  /\ UNCHANGED svars
       ELSE /\ Halted("assemble", "No transcripts found")
            /\ UNCHANGED <<stages, svars>>
    /\ UNCHANGED <<driver, youtube_link, source, downloaded_audio>>
    /\ UNCHANGED <<wvars, cvars, zvars>>

\* lines 108-109: f.write raises while create_srt_file runs
MainAssembleRaised ==
    /\ pc = "srt_loop"
    /\ driver = "main"
    /\ Halted("assemble", "Failed to create srt file")
    /\ UNCHANGED <<driver, youtube_link, source, downloaded_audio, stages>>
    /\ UNCHANGED <<wvars, cvars, svars, zvars>>

\* the end of the script
MainEnd ==
    /\ pc = "srt_done"
    /\ driver = "main"
    /\ pc' = "main_done"
    /\ UNCHANGED <<wvars, cvars, svars, zvars, dvars>>

NextMain ==
    \/ MainPrompt \/ MainDownload \/ MainSplit \/ MainSplitRaised
    \/ MainCollect \/ MainCollectRaised \/ MainAssemble \/ MainAssembleRaised
    \/ MainEnd
    \/ NextSilence \/ NextCollect \/ NextSrt

(***************************************************************************)
(* app.py: main(), from the submitted form to the end of the download      *)
(* step. Line 80 unpacks the value of download_youtube_video into two      *)
(* names; the value is a path of more than two characters or None, so the  *)
(* unpacking raises in every run and the steps after line 94 (extraction,  *)
(* segmentation, transcription, SRT file) are never entered.               *)
(***************************************************************************)
\* `a, b = value`: TypeError for None, ValueError unless the string has
\* exactly two characters, else its two characters
Unpack2(value) ==
    IF value.is_none \/ Len(value.path) # 2
    THEN [raised |-> TRUE, first |-> <<>>, second |-> <<>>]
    ELSE [raised |-> FALSE, first |-> <<value.path[1]>>,
          second |-> <<value.path[2]>>]

InitApp ==
    /\ pc = "app_submit"
    /\ driver = "app"
    /\ youtube_link \in {<<>>, <<"u">>}
    /\ source \in Sources
    /\ (youtube_link = <<>> => source = NoSource)
    /\ downloaded_audio = NonePath
    /\ stages = <<>>
    /\ halt = NoHalt
    /\ WindowIdle
    /\ CollectIdle
    /\ transcripts = <<>>
    /\ SrtIdle
    /\ SilenceIdle

\* lines 56-65: the form was submitted
AppSubmit ==
    /\ pc = "app_submit"
    /\ driver = "app"
    /\ IF youtube_link = <<>>
       THEN Halted("form", "Please enter a valid YouTube link.")
       ELSE pc' = "app_clear" /\ UNCHANGED halt
    /\ UNCHANGED <<driver, youtube_link, source, downloaded_audio, stages>>
    /\ UNCHANGED <<wvars, cvars, svars, zvars>>

\* lines 68-75: the folders are cleared and the old .srt files removed;
\* os.remove and the handler at utils.py 319-321 may raise
AppClear ==
    /\ pc = "app_clear"
    /\ driver = "app"
    /\ \E raises \in BOOLEAN :
          IF raises
          THEN Halted("clear", "exception while clearing")
          ELSE pc' = "app_download_video" /\ UNCHANGED halt
    /\ UNCHANGED <<driver, youtube_link, source, downloaded_audio, stages>>
    /\ UNCHANGED <<wvars, cvars, svars, zvars>>

\* lines 78-94: the download step
AppDownloadVideo ==
    /\ pc = "app_download_video"
    /\ driver = "app"
    /\ stages' = Append(stages, "acquire")
    /\ LET u == Unpack2(DownloadYoutubeVideo(source))
           \* line 83: with a character for `duration` the comparison with
           \* 1200 raises TypeError
           compared == ~u.raised /\ u.first # <<>>
       IN IF u.raised \/ compared
          THEN \* lines 92-94
               Halted("acquire", "Error downloading video")
          ELSE \* lines 88-90
               Halted("acquire", "Failed to download video file.")
    /\ UNCHANGED <<driver, youtube_link, source, downloaded_audio>>
    /\ UNCHANGED <<wvars, cvars, svars, zvars>>

NextApp == AppSubmit \/ AppClear \/ AppDownloadVideo

(***************************************************************************)
(* The two drivers                                                         *)
(***************************************************************************)
InitDriver == InitMain \/ InitApp

NextDriver == NextMain \/ NextApp

SpecDriver == InitDriver /\ [][NextDriver]_vars

(***************************************************************************)
(* The functions together                                                  *)
(***************************************************************************)
Init == InitWindow \/ InitSilence \/ InitCollect \/ InitSrt \/ InitDriver

Next == NextWindow \/ NextSilence \/ NextCollect \/ NextSrt \/ NextDriver

Spec == Init /\ [][Next]_vars

(***************************************************************************)
(* Claims about the sliding-window segmenter                               *)
(***************************************************************************)
\* C1: for every total duration T >= 0 and chunk size C > 0 the segmenter
\* returns exactly ceil(T/C) segments, in index order, whose nominal
\* intervals [subtitle_start, subtitle_end) tile [0, T): the first starts at
\* 0, each start equals the previous end, no interval is empty and the last
\* ends at T.
C1_NominalTiling ==
    pc = "window_done" =>
        LET n == Len(final_chunks)
            T == total_duration
            C == chunk_duration_ms
        IN /\ n * C >= T
           /\ (n > 0 => (n - 1) * C < T)
           /\ (n = 0 => T = 0)
           /\ (n > 0 => /\ final_chunks[1].subtitle_start = 0
                        /\ final_chunks[n].subtitle_end = T)
           /\ \A k \in 1..n :
                 final_chunks[k].subtitle_start < final_chunks[k].subtitle_end
           /\ \A k \in 1..(n - 1) :
                 final_chunks[k + 1].subtitle_start = final_chunks[k].subtitle_end

\* a finished run of at least three segments whose last one is cut short by
\* the end of the audio
C1_Witness ==
    /\ pc = "window_done"
    /\ Len(final_chunks) >= 3
    /\ total_duration % chunk_duration_ms # 0
    /\ final_chunks[Len(final_chunks)].subtitle_end
         - final_chunks[Len(final_chunks)].subtitle_start < chunk_duration_ms

\* C2: every exported window contains its nominal interval, stays inside
\* [0, T], is at least as long as the nominal interval and extends it by at
\* most the context duration on each side; T=16000, C=7000, X=2000 exports
\* [0,9000), [5000,16000), [12000,16000).
C2_ExportWindow ==
    /\ Len(exported) = Len(final_chunks)
    /\ \A k \in 1..Len(final_chunks) :
          LET ss == final_chunks[k].subtitle_start
              se == final_chunks[k].subtitle_end
              cs == exported[k].chunk_start
              ce == exported[k].chunk_end
          IN /\ 0 <= cs /\ cs <= ss
             /\ se <= ce /\ ce <= total_duration
             /\ ce - cs >= se - ss
             /\ ss - cs <= context_duration_ms
             /\ ce - se <= context_duration_ms
    /\ ( /\ pc = "window_done"
         /\ total_duration = 16000
         /\ chunk_duration_ms = 7000
         /\ context_duration_ms = 2000 )
       => /\ final_chunks = << [subtitle_start |-> 0, subtitle_end |-> 7000],
                               [subtitle_start |-> 7000, subtitle_end |-> 14000],
                               [subtitle_start |-> 14000, subtitle_end |-> 16000] >>
          /\ exported = << [chunk_start |-> 0, chunk_end |-> 9000],
                           [chunk_start |-> 5000, chunk_end |-> 16000],
                           [chunk_start |-> 12000, chunk_end |-> 16000] >>

\* the 16 s scenario has finished: its first window is clamped at 0, its
\* last at T, and the middle one carries the context on its left side
C2_Witness ==
    /\ pc = "window_done"
    /\ total_duration = 16000
    /\ context_duration_ms = 2000
    /\ Len(exported) = 3
    /\ exported[1].chunk_start = final_chunks[1].subtitle_start
    /\ exported[2].chunk_start = final_chunks[2].subtitle_start - 2000
    /\ exported[3].chunk_end = final_chunks[3].subtitle_end

(***************************************************************************)
(* Claims about the collector and the client                               *)
(***************************************************************************)
\* the client succeeded for segment k: a request was made and answered 2xx
\* with a JSON object that has a transcript
Succeeded(call) ==
    /\ call.mime \in AllowedMimeTypes
    /\ call.readable
    /\ call.net.kind = "ok"
    /\ "transcript" \in DOMAIN call.net.body

\* C3: for every input of n segments and every pattern of per-segment client
\* failures (unsupported format, unreadable file, transport error, non-2xx,
\* no transcript field) the collector calls the client once per segment in
\* order and returns n entries in order, entry k with segment k's start and
\* end and the real transcript or '[Unintelligible]'; no failure of one
\* segment aborts the run.
C3_CollectorNeverAborts ==
    pc \in {"collect_done", "collect_raised"} =>
        /\ pc = "collect_done"
        /\ Len(calls) = Len(chunks)
        /\ Len(transcripts) = Len(chunks)
        /\ \A k \in 1..Len(chunks) :
              /\ calls[k].mime = chunks[k].mime
              /\ transcripts[k].start_time = chunks[k].start_ms
              /\ transcripts[k].end_time = chunks[k].end_ms
              /\ transcripts[k].transcript =
                    IF Succeeded(calls[k])
                    THEN calls[k].net.body["transcript"]
                    ELSE Placeholder

\* C4 as stated: a call of send_to_sarvam_api issues no POST when the MIME type
\* is outside the allow-list and exactly one otherwise; a failed request
\* yields the sentinel with no retry; a run over n segments issues at most n
\* requests.
C4_ExactlyOnePostWhenAllowed ==
    /\ posts <= Len(chunks)
    /\ \A k \in 1..Len(calls) :
          /\ calls[k].posts = IF calls[k].mime \in AllowedMimeTypes THEN 1 ELSE 0
          /\ calls[k].mime \notin AllowedMimeTypes =>
                ~calls[k].raised /\ calls[k].response.is_none
          /\ calls[k].net.kind \in {"transport_error", "http_error"} =>
                ~calls[k].raised /\ calls[k].response.is_none

\* C4 as amended: a call issues at most one POST: none when the MIME type is
\* outside the allow-list (the sentinel is returned) or when the segment file
\* cannot be opened (the error of open() leaves the call), exactly one
\* otherwise; a failed request yields the sentinel with no retry; a run over
\* n segments issues at most n requests.
C4_AtMostOnePost ==
    /\ posts <= Len(calls)
    /\ Len(calls) <= Len(chunks)
    /\ \A k \in 1..Len(calls) :
          /\ calls[k].posts \in {0, 1}
          /\ calls[k].posts = 0 <=>
                (calls[k].mime \notin AllowedMimeTypes \/ ~calls[k].readable)
          /\ calls[k].mime \notin AllowedMimeTypes =>
                ~calls[k].raised /\ calls[k].response.is_none
          /\ calls[k].net.kind \in {"transport_error", "http_error"} =>
                /\ calls[k].posts = 1
                /\ ~calls[k].raised
                /\ calls[k].response.is_none

\* a run with a rejected MIME type, a non-2xx answer, a transport error and a
\* file that cannot be opened
C4_Witness ==
    /\ Len(calls) = 3
    /\ \E k \in 1..3 : calls[k].mime \notin AllowedMimeTypes /\ calls[k].posts = 0
    /\ \E k \in 1..3 : calls[k].net.kind = "http_error" /\ calls[k].posts = 1
    /\ \E k \in 1..3 : ~calls[k].readable /\ calls[k].posts = 0
    /\ posts = 1

(***************************************************************************)
(* Claims about the timestamp formatter and the SRT assembler              *)
(***************************************************************************)
\* the lines of a written block, each ended by its newline character
LinesOf(block) ==
    LET nl == {p \in 1..Len(block) : block[p] = "\n"}
        pos(j) == IF j = 0 THEN 0 ELSE Nth(nl, j)
    IN [j \in 1..Cardinality(nl) |-> SubSeq(block, pos(j - 1) + 1, pos(j) - 1)]

\* a block is: the index line, the timing line, the text lines, the separator
TextLines(block) == SubSeq(LinesOf(block), 3, Len(LinesOf(block)) - 1)

RECURSIVE Flatten(_)
Flatten(seqs) == IF seqs = <<>> THEN <<>> ELSE Head(seqs) \o Flatten(Tail(seqs))

IsDigit(c) == \E d \in 1..10 : Digit[d] = c
DigitValue(c) == (CHOOSE d \in 1..10 : Digit[d] = c) - 1
RECURSIVE Value(_)
Value(cs) ==
    IF cs = <<>> THEN 0
    ELSE 10 * Value(SubSeq(cs, 1, Len(cs) - 1)) + DigitValue(cs[Len(cs)])

\* C5: every text line of a cue is at most max_chars long unless it is one
\* single word that is itself longer; such a word stands alone and whole on
\* its line, and the words of the normalized text appear over the lines in
\* their order, none lost.
C5_LineWidth ==
    \A k \in 1..Len(srt_file) :
        LET tl == TextLines(srt_file[k])
            words == Split(Normalize(transcripts[k].transcript))
        IN /\ \A j \in 1..Len(tl) :
                 Len(tl[j]) > max_chars =>
                    \A c \in 1..Len(tl[j]) : tl[j][c] \notin Whitespace
           /\ \A w \in 1..Len(words) :
                 Len(words[w]) > max_chars => \E j \in 1..Len(tl) : tl[j] = words[w]
           /\ Flatten([j \in 1..Len(tl) |-> Split(tl[j])]) = words

\* a cue with a line of two words that is exactly max_chars long, followed by
\* a word longer than max_chars on a line of its own and by a further word
C5_Witness ==
    /\ Len(srt_file) = 1
    /\ LET tl == TextLines(srt_file[1])
       IN /\ Len(tl) = 3
          /\ Len(tl[1]) = max_chars
          /\ Len(Split(tl[1])) = 2
          /\ Len(tl[2]) > max_chars
          /\ Len(tl[3]) <= max_chars

\* C6: a transcript text of length L <= max_chars (a single word of length
\* exactly max_chars and the empty text included) gives exactly one text line.
C6_ShortTextOneLine ==
    \A k \in 1..Len(srt_file) :
        Len(transcripts[k].transcript) <= max_chars =>
            Len(TextLines(srt_file[k])) = 1

\* C7: every cue block has one or more text lines and none of them is empty,
\* so the only blank line of a block is the separator that ends it.
C7_NoEmptyTextLine ==
    \A k \in 1..Len(srt_file) :
        LET tl == TextLines(srt_file[k])
        IN /\ Len(tl) >= 1
           /\ \A j \in 1..Len(tl) : tl[j] # <<>>

\* the two timestamps of a block's timing line
TimingLine(block) == LinesOf(block)[2]
StartStamp(block) ==
    LET l == TimingLine(block)
        sp == CHOOSE p \in 1..Len(l) : l[p] = " " /\ \A q \in 1..(p - 1) : l[q] # " "
    IN SubSeq(l, 1, sp - 1)
EndStamp(block) ==
    LET l == TimingLine(block)
        sp == CHOOSE p \in 1..Len(l) : l[p] = " " /\ \A q \in (p + 1)..Len(l) : l[q] # " "
    IN SubSeq(l, sp + 1, Len(l))

\* ts is 'HH:MM:SS,mmm' for ms
IsStampOf(ts, ms) ==
    LET n == Len(ts)
    IN /\ n >= 12
       /\ ts[n - 3] = "," /\ ts[n - 6] = ":" /\ ts[n - 9] = ":"
       /\ \A p \in (1..n) \ {n - 3, n - 6, n - 9} : IsDigit(ts[p])
       /\ Value(SubSeq(ts, n - 2, n)) = ms % 1000
       /\ Value(SubSeq(ts, n - 5, n - 4)) = (ms \div 1000) % 60
       /\ Value(SubSeq(ts, n - 8, n - 7)) = (ms \div 60000) % 60
       /\ Value(SubSeq(ts, n - 5, n - 4)) < 60
       /\ Value(SubSeq(ts, n - 8, n - 7)) < 60
       /\ Value(SubSeq(ts, 1, n - 10)) = ms \div 3600000
       /\ (n > 12 => ts[1] # "0")

\* C8: for every ms >= 0 format_timestamp(ms) is 'HH:MM:SS,mmm' with
\* mmm = ms mod 1000, SS = (ms div 1000) mod 60, MM = (ms div 60000) mod 60,
\* HH = ms div 3600000 padded to at least two digits; seconds and minutes are
\* below 60; 0 -> 00:00:00,000, 61234 -> 00:01:01,234, 3600000 -> 01:00:00,000.
C8_TimestampFormat ==
    \A k \in 1..Len(srt_file) :
        LET ts == StartStamp(srt_file[k])
            te == EndStamp(srt_file[k])
            ms == transcripts[k].start_time
        IN /\ IsStampOf(ts, ms)
           /\ IsStampOf(te, transcripts[k].end_time)
           /\ (ms = 0 =>
                 ts = <<"0", "0", ":", "0", "0", ":", "0", "0", ",", "0", "0", "0">>)
           /\ (ms = 61234 =>
                 ts = <<"0", "0", ":", "0", "1", ":", "0", "1", ",", "2", "3", "4">>)
           /\ (ms = 3600000 =>
                 ts = <<"0", "1", ":", "0", "0", ":", "0", "0", ",", "0", "0", "0">>)

\* a cue from 99:59:59,999 to 100:00:04,999 has been written
C8_Witness ==
    /\ Len(srt_file) = 1
    /\ transcripts[1].start_time = 359999999
    /\ Len(StartStamp(srt_file[1])) = 12
    /\ Len(EndStamp(srt_file[1])) = 13

\* C9: for n entries create_srt_file writes n blocks in input order, without
\* sorting; block i carries the index i and the formatted start and end
\* of entry i.
C9_BlocksInOrder ==
    /\ subtitle_number = Len(srt_file) + 1
    /\ Len(srt_file) <= Len(transcripts)
    /\ (pc = "srt_done" => Len(srt_file) = Len(transcripts))
    /\ \A k \in 1..Len(srt_file) :
          LET ls == LinesOf(srt_file[k])
          IN /\ ls[1] # <<>>
             /\ \A p \in 1..Len(ls[1]) : IsDigit(ls[1][p])
             /\ Value(ls[1]) = k
             /\ ls[2] = FormatTimestamp(transcripts[k].start_time) \o Arrow
                        \o FormatTimestamp(transcripts[k].end_time)

\* three entries that are not in the order of their start times are written
C9_Witness ==
    /\ pc = "srt_done"
    /\ Len(srt_file) = 3
    /\ transcripts[1].start_time > transcripts[2].start_time
    /\ transcripts[2].start_time < transcripts[3].start_time

(***************************************************************************)
(* Claims about the silence-based segmenter                                *)
(***************************************************************************)
\* the clock after the first c natural chunks
RECURSIVE ClockAfter(_)
ClockAfter(c) ==
    IF c = 0 THEN 0
    ELSE ClockAfter(c - 1) + natural_chunks[c] + keep_silence

\* C10: the clock starts at 0 and advances by d + keepSilenceMs once after
\* every natural chunk, split or not; a chunk with d <= maxChunkDurationMs
\* gives the one segment (clock, clock + d), a longer one gives
\* k = floor(d / maxChunkDurationMs) + 1 equal sub-segments that tile
\* [clock, clock + d), none longer than maxChunkDurationMs; the emitted
\* intervals are strictly increasing and do not overlap, and the first
\* segment of a chunk starts keepSilenceMs after the end of the last segment
\* of the chunk before it.
C10_SilenceClock ==
    /\ current_time = ClockAfter(Handled)
    /\ \A c \in 1..Handled :
          LET d == natural_chunks[c]
              clock == ClockAfter(c - 1)
              idx == {p \in 1..Len(silence_chunks) : silence_chunks[p].chunk = c}
              first == silence_chunks[Nth(idx, 1)]
              last == silence_chunks[Nth(idx, Cardinality(idx))]
          IN /\ idx # {}
             /\ d <= max_chunk_duration => Cardinality(idx) = 1
             /\ d > max_chunk_duration =>
                   Cardinality(idx) = (d \div max_chunk_duration) + 1
             /\ first.start_n = clock * first.den
             /\ last.end_n = (clock + d) * last.den
             /\ \A p \in idx :
                   LET s == silence_chunks[p]
                   IN /\ s.end_n - s.start_n <= max_chunk_duration * s.den
                      /\ (s.end_n - s.start_n) * Cardinality(idx) = d * s.den
                      /\ (p + 1) \in idx =>
                            s.end_n * silence_chunks[p + 1].den
                               = silence_chunks[p + 1].start_n * s.den
    /\ \A p \in 1..Len(silence_chunks) :
          silence_chunks[p].start_n < silence_chunks[p].end_n
    /\ \A p \in 1..(Len(silence_chunks) - 1) :
          LET s == silence_chunks[p]
              t == silence_chunks[p + 1]
          IN /\ s.chunk <= t.chunk
             /\ s.start_n * t.den < t.start_n * s.den
             /\ s.end_n * t.den <= t.start_n * s.den
             /\ s.chunk # t.chunk =>
                   (s.end_n + keep_silence * s.den) * t.den = t.start_n * s.den

\* a chunk split into three sub-segments of 7/3 ms, between two chunks that
\* are not split, with silence kept
C10_Witness ==
    /\ pc = "silence_done"
    /\ keep_silence > 0
    /\ Len(natural_chunks) = 3
    /\ natural_chunks[1] <= max_chunk_duration
    /\ natural_chunks[2] = 7 /\ max_chunk_duration = 3
    /\ natural_chunks[3] <= max_chunk_duration
    /\ Len(silence_chunks) = 5

(***************************************************************************)
(* Claims about the drivers                                                *)
(***************************************************************************)
PipelineStages == <<"acquire", "segment", "collect", "assemble">>

LastStage == IF stages = <<>> THEN "none" ELSE stages[Len(stages)]

\* the stages are entered in the order acquire, segment, collect, assemble,
\* each at most once and none skipped
C11_StageOrder ==
    /\ Len(stages) <= Len(PipelineStages)
    /\ stages = SubSeq(PipelineStages, 1, Len(stages))

\* a run halted at the acquisition, the segmentation or the writing of the
\* subtitles has entered no later stage, and what the later stages produce
\* (calls of the client, entries, blocks of the subtitle file) is absent
C11_FatalHalts ==
    /\ (pc = "halted" /\ halt.at \in {"acquire", "segment"})
          => /\ LastStage = halt.at
             /\ calls = <<>> /\ transcripts = <<>> /\ srt_file = <<>>
    /\ (pc = "halted" /\ halt.at = "assemble" /\ halt.cause # "No transcripts found")
          => LastStage = "assemble"
    /\ (pc = "halted" /\ halt.cause = "No transcripts found")
          => /\ LastStage = "collect"
             /\ srt_file = <<>>
    /\ srt_file # <<>> => LastStage = "assemble"

\* the assembler runs only once every segment has its entry
C11_AssembleAfterAll ==
    LastStage = "assemble"
        => /\ Len(chunks) = Len(silence_chunks)
           /\ Len(transcripts) = Len(chunks)
           /\ \A k \in 1..Len(chunks) :
                 /\ transcripts[k].start_time = chunks[k].start_ms
                 /\ transcripts[k].end_time = chunks[k].end_ms

\* no run is halted in the collect stage: whatever goes wrong with the
\* transcription of a segment, the run goes on to the next segment
C11_SegmentFailureAbsorbed ==
    ~(pc = "halted" /\ halt.at = "collect")

\* C11: in both drivers the stages run in the order acquire, segment,
\* collect, assemble; a failure of the acquisition, the segmentation or the
\* subtitle writing halts the run, no later stage runs and no subtitle is
\* written after it; the assembler is invoked only after every segment has an
\* entry; the failure of a segment's transcription is the only error that
\* does not halt the run.
C11_StagePolicy ==
    /\ C11_StageOrder
    /\ C11_FatalHalts
    /\ C11_AssembleAfterAll
    /\ C11_SegmentFailureAbsorbed

\* C12: in the run of the Streamlit app, the download step halts the run
\* exactly when download_youtube_video fails or the duration of the source
\* exceeds 1200 seconds; when the download succeeds and the duration is at
\* most 1200 seconds the run is not halted there.
C12_DownloadGate ==
    (driver = "app" /\ LastStage = "acquire" /\ pc # "app_download_video")
        => ((pc = "halted" /\ halt.at = "acquire")
               <=> (~source.ok \/ source.duration > DurationLimit))

=============================================================================
